---- MODULE Spec2Model ----
(***************************************************************************)
(* react-quiz: the useReducer quiz state machine (README "Core Reducer"),  *)
(* dispatched either directly (Spec: any declared event in any state) or   *)
(* through the presentation components StartScreen, Options, NextButton    *)
(* and Timer (SpecUI).                                                     *)
(***************************************************************************)
EXTENDS Integers, Sequences, FiniteSets, TLC

VARIABLES file, state, thrown, chosen, ticks,
          response, timer, intervals, intervalSeq

vars == <<file, state, thrown, chosen, ticks,
          response, timer, intervals, intervalSeq>>

(***************************************************************************)
(* Bounds of the model.                                                    *)
(***************************************************************************)
\* number of option buttons a question offers (payloads of newAnswer)
NumOptions == 2
\* direct dispatch only: nextQuestion is not dispatched beyond this index
MaxIndex == 2
\* direct dispatch only: newAnswer is not dispatched once points would exceed this
MaxPoints == 30
\* direct dispatch only: tick is not dispatched once secondsRemaining would drop below -MaxOverrun
MaxOverrun == 2
\* the StartScreen button is not clicked once this many intervals were created
MaxIntervals == 3

(***************************************************************************)
(* JavaScript values: null is the empty tuple, a present number n is <<n>>. *)
(***************************************************************************)
Null == <<>>

Some(n) == <<n>>

\* ToNumber as applied by the binary minus: null - 1 is -1
ToNumber(x) == IF x = Null THEN 0 ELSE x[1]

Max(a, b) == IF a >= b THEN a ELSE b

\* Array.prototype.at: <<element>> or Null (undefined) when out of range
at(arr, i) ==
  LET k == IF i < 0 THEN Len(arr) + i ELSE i
  IN  IF k >= 0 /\ k < Len(arr) THEN <<arr[k + 1]>> ELSE Null

(***************************************************************************)
(* public/questions.json: the static question lists the loader may find.   *)
(***************************************************************************)
Q(c, p) == [correctOption |-> c, points |-> p]

QuestionFiles ==
  { <<>>,
    << Q(1, 10) >>,
    << Q(1, 10), Q(0, 20) >>,
    << Q(0, 10), Q(1, 10), Q(0, 10) >> }

\* data.questions of a JSON document that has no questions member: undefined,
\* written as a list no question file holds
Undefined == << Q(-1, -1) >>

(***************************************************************************)
(* The reducer.                                                            *)
(***************************************************************************)
SECS_PER_QUESTION == 30

initialState ==
  [ questions |-> <<>>,
    status |-> "loading",
    index |-> 0,
    answer |-> Null,
    points |-> 0,
    highscore |-> 0,
    secondsRemaining |-> Null ]

dataReceived(s, payload) == [s EXCEPT !.questions = payload, !.status = "ready"]

\* mutant: the failure is reported as a successful load
dataFailed_ready(s) == [s EXCEPT !.status = "ready"]

dataFailed(s) == [s EXCEPT !.status = "error"]

start(s) ==
  [s EXCEPT !.status = "active",
            !.secondsRemaining = Some(Len(s.questions) * SECS_PER_QUESTION)]

\* const question = state.questions.at(state.index)
currentQuestion(s) == at(s.questions, s.index)

\* mutant: the points are credited whatever option was chosen
newAnswer_creditAlways(s, payload) ==
  LET question == currentQuestion(s)[1]
  IN  [s EXCEPT !.answer = Some(payload),
                !.points = s.points + question.points]

\* mutant: a wrong option costs the question's points
newAnswer_penalty(s, payload) ==
  LET question == currentQuestion(s)[1]
  IN  [s EXCEPT !.answer = Some(payload),
                !.points = IF payload = question.correctOption
                             THEN s.points + question.points
                             ELSE s.points - question.points]

\* mutant: the options are taken to be numbered from 1
newAnswer_oneBased(s, payload) ==
  LET question == currentQuestion(s)[1]
  IN  [s EXCEPT !.answer = Some(payload),
                !.points = IF payload = question.correctOption + 1
                             THEN s.points + question.points
                             ELSE s.points]

\* mutant: a question that already has an answer is not credited again
newAnswer_once(s, payload) ==
  LET question == currentQuestion(s)[1]
  IN  [s EXCEPT !.answer = Some(payload),
                !.points = IF payload = question.correctOption /\ s.answer = Null
                             THEN s.points + question.points
                             ELSE s.points]

newAnswer(s, payload) ==
  LET question == currentQuestion(s)[1]
  IN  [s EXCEPT !.answer = Some(payload),
                !.points = IF payload = question.correctOption
                             THEN s.points + question.points
                             ELSE s.points]

\* mutant: the index advances without clearing the prior answer
nextQuestion_keepAnswer(s) == [s EXCEPT !.index = s.index + 1]

nextQuestion(s) == [s EXCEPT !.index = s.index + 1, !.answer = Null]

finish(s) ==
  [s EXCEPT !.status = "finished",
            !.highscore = Max(s.points, s.highscore)]

\* mutant: restart returns the bare initial state but for questions and status
restart_dropHighscore(s) ==
  [initialState EXCEPT !.questions = s.questions,
                       !.status = "ready"]

\* mutant: restart forgets to override the status of initialState
restart_toLoading(s) ==
  [initialState EXCEPT !.questions = s.questions,
                       !.highscore = s.highscore]

\* mutant: restart resets the position and the clock but keeps the points
restart_keepPoints(s) ==
  [s EXCEPT !.status = "ready",
            !.index = 0,
            !.answer = Null,
            !.secondsRemaining = Null]

restart(s) ==
  [initialState EXCEPT !.questions = s.questions,
                       !.highscore = s.highscore,
                       !.status = "ready"]

\* mutant: the quiz ends one second early
tick_early(s) ==
  LET next == ToNumber(s.secondsRemaining) - 1
  IN  [s EXCEPT !.secondsRemaining = Some(next),
                !.status = IF next <= 1 THEN "finished" ELSE s.status]

\* mutant: the quiz ends one second late
tick_late(s) ==
  LET next == ToNumber(s.secondsRemaining) - 1
  IN  [s EXCEPT !.secondsRemaining = Some(next),
                !.status = IF next < 0 THEN "finished" ELSE s.status]

\* mutant: the clock is clamped at zero
tick_clamped(s) ==
  LET next == ToNumber(s.secondsRemaining) - 1
  IN  [s EXCEPT !.secondsRemaining = Some(Max(next, 0)),
                !.status = IF next <= 0 THEN "finished" ELSE s.status]

tick(s) ==
  LET next == ToNumber(s.secondsRemaining) - 1
  IN  [s EXCEPT !.secondsRemaining = Some(next),
                !.status = IF next <= 0 THEN "finished" ELSE s.status]

\* the declared action types
ActionTypes ==
  {"dataReceived", "dataFailed", "start", "newAnswer", "nextQuestion",
   "finish", "restart", "tick"}

\* action types no case of the reducer names
UnknownTypes == {"reset", "TICK"}

\* mutant: the default case returns the state instead of throwing
throws_knownOnly(s, action) ==
  IF action.type \in {"start", "newAnswer"} /\ s.questions = Undefined
    THEN "TypeError"
    ELSE IF action.type = "newAnswer" /\ currentQuestion(s) = Null
      THEN "TypeError"
      ELSE "none"

\* what the reducer throws: the default case throws Error('Action is unknown');
\* reading .length or .at of undefined questions, or question.correctOption
\* of an undefined question, raises a TypeError
throws(s, action) ==
  IF action.type \notin ActionTypes
    THEN "Action is unknown"
    ELSE IF action.type \in {"start", "newAnswer"} /\ s.questions = Undefined
      THEN "TypeError"
      ELSE IF action.type = "newAnswer" /\ currentQuestion(s) = Null
        THEN "TypeError"
        ELSE "none"

reducer(s, action) ==
  CASE action.type = "dataReceived" -> dataReceived(s, action.payload)
    [] action.type = "dataFailed" -> dataFailed(s)
    [] action.type = "start" -> start(s)
    [] action.type = "newAnswer" -> newAnswer(s, action.payload)
    [] action.type = "nextQuestion" -> nextQuestion(s)
    [] action.type = "finish" -> finish(s)
    [] action.type = "restart" -> restart(s)
    [] action.type = "tick" -> tick(s)
    [] OTHER -> s  \* default: nothing is returned, see throws

\* dispatch: the state is replaced by the reducer's result; a reducer that
\* throws leaves the state as it was
dispatch(action) ==
  /\ thrown' = throws(state, action)
  /\ state' = IF throws(state, action) = "none"
                THEN reducer(state, action)
                ELSE state

(***************************************************************************)
(* Initial state: useReducer(reducer, initialState), questions.json fixed. *)
(***************************************************************************)
Init ==
  /\ file \in QuestionFiles
  /\ state = initialState
  /\ thrown = "none"
  /\ chosen = <<>>
  /\ ticks = -1
  /\ response = "pending"
  /\ timer = Null
  /\ intervals = {}
  /\ intervalSeq = 0

(***************************************************************************)
(* Spec: every declared event dispatched directly, in any state.           *)
(***************************************************************************)
DataReceived ==
  /\ dispatch([type |-> "dataReceived", payload |-> file])
  /\ UNCHANGED <<file, chosen, ticks, response, timer, intervals, intervalSeq>>

DataFailed ==
  /\ dispatch([type |-> "dataFailed"])
  /\ UNCHANGED <<file, chosen, ticks, response, timer, intervals, intervalSeq>>

Start ==
  /\ dispatch([type |-> "start"])
  /\ UNCHANGED <<file, chosen, ticks, response, timer, intervals, intervalSeq>>

NewAnswer ==
  \E payload \in 0 .. NumOptions - 1 :
    /\ dispatch([type |-> "newAnswer", payload |-> payload])
    /\ state'.points <= MaxPoints
    /\ UNCHANGED <<file, chosen, ticks, response, timer, intervals, intervalSeq>>

NextQuestion ==
  /\ state.index < MaxIndex
  /\ dispatch([type |-> "nextQuestion"])
  /\ UNCHANGED <<file, chosen, ticks, response, timer, intervals, intervalSeq>>

Finish ==
  /\ dispatch([type |-> "finish"])
  /\ UNCHANGED <<file, chosen, ticks, response, timer, intervals, intervalSeq>>

Restart ==
  /\ dispatch([type |-> "restart"])
  /\ UNCHANGED <<file, chosen, ticks, response, timer, intervals, intervalSeq>>

Tick ==
  /\ ToNumber(state.secondsRemaining) - 1 >= -MaxOverrun
  /\ dispatch([type |-> "tick"])
  /\ UNCHANGED <<file, chosen, ticks, response, timer, intervals, intervalSeq>>

\* an event outside the declared set
Unknown ==
  \E type \in UnknownTypes :
    /\ dispatch([type |-> type])
    /\ UNCHANGED <<file, chosen, ticks, response, timer, intervals, intervalSeq>>

Next ==
  \/ DataReceived
  \/ DataFailed
  \/ Start
  \/ NewAnswer
  \/ NextQuestion
  \/ Finish
  \/ Restart
  \/ Tick
  \/ Unknown

Spec == Init /\ [][Next]_vars

(***************************************************************************)
(* SpecUI: the events as the components dispatch them.                     *)
(***************************************************************************)
\* App.js derived value: const numQuestions = questions.length
numQuestions == Len(state.questions)

\* the derived values read questions.length and questions.reduce on every
\* render: with undefined questions the render throws and nothing is mounted
renderThrows == state.questions = Undefined

\* App.js renders StartScreen in ready, Question/Options/NextButton/Timer in
\* active and FinishScreen in finished
StartScreenMounted == state.status = "ready" /\ ~renderThrows

QuestionMounted == state.status = "active" /\ ~renderThrows

TimerMounted == state.status = "active" /\ ~renderThrows

FinishScreenMounted == state.status = "finished" /\ ~renderThrows

\* mutant: the buttons are rendered before the question is answered
NextButton_noGuard(answer, n, index) ==
  IF index < n - 1 THEN "nextQuestion"
  ELSE IF index = n - 1 THEN "finish"
  ELSE "none"

\* the button NextButton renders: none, Next (nextQuestion) or Finish (finish)
NextButton(answer, n, index) ==
  IF answer = Null THEN "none"
  ELSE IF index < n - 1 THEN "nextQuestion"
  ELSE IF index = n - 1 THEN "finish"
  ELSE "none"

\* Options: one button per option, all disabled once an answer is present
OptionsEnabled(question, answer) == question # Null /\ answer = Null

\* mutant: the effect creates no interval
TimerEffect_none(ivs, seq) == [intervals |-> ivs, intervalId |-> seq + 1]

\* Timer's effect: const intervalId = setInterval(...), a fresh live interval
TimerEffect(ivs, seq) == [intervals |-> ivs \cup {seq + 1}, intervalId |-> seq + 1]

\* mutant: the effect returns no cleanup
TimerCleanup_none(ivs, intervalId) == ivs

\* Timer's cleanup: clearInterval(intervalId)
TimerCleanup(ivs, intervalId) == ivs \ {intervalId}

\* the commit that follows a dispatch: Timer is mounted (its effect runs) when
\* the quiz became active, and torn down (its cleanup runs) when it left active
commit ==
  IF TimerMounted' /\ timer = Null
    THEN LET effect == TimerEffect(intervals, intervalSeq)
         IN  /\ timer' = Some(effect.intervalId)
             /\ intervals' = effect.intervals
             /\ intervalSeq' = effect.intervalId
    ELSE IF ~TimerMounted' /\ timer # Null
      THEN /\ timer' = Null
           /\ intervals' = TimerCleanup(intervals, timer[1])
           /\ UNCHANGED intervalSeq
      ELSE UNCHANGED <<timer, intervals, intervalSeq>>

\* the event the promise chain of the loader dispatches: dataReceived with
\* data.questions once the body parsed, dataFailed from its catch
loaderEvent(outcome, questions) ==
  CASE outcome = "ok" -> [type |-> "dataReceived", payload |-> questions]
    [] outcome = "malformed" -> [type |-> "dataReceived", payload |-> Undefined]
    [] outcome = "failed" -> [type |-> "dataFailed"]

\* useEffect(fetch('/questions.json') ...) resolves: the one load event
LoaderResolved ==
  /\ response = "pending"
  /\ dispatch(loaderEvent("ok", file))
  /\ response' = "ok"
  /\ commit
  /\ UNCHANGED <<file, chosen, ticks>>

\* the fetch is rejected, or the body is not JSON and res.json() is rejected
LoaderRejected ==
  /\ response = "pending"
  /\ dispatch(loaderEvent("failed", file))
  /\ response' = "failed"
  /\ commit
  /\ UNCHANGED <<file, chosen, ticks>>

\* the body is a JSON document without a questions list
LoaderMalformed ==
  /\ response = "pending"
  /\ dispatch(loaderEvent("malformed", file))
  /\ response' = "malformed"
  /\ commit
  /\ UNCHANGED <<file, chosen, ticks>>

StartScreenClick ==
  /\ StartScreenMounted
  /\ intervalSeq < MaxIntervals
  /\ dispatch([type |-> "start"])
  /\ chosen' = <<>>
  /\ ticks' = 0
  /\ commit
  /\ UNCHANGED <<file, response>>

OptionsClick ==
  \E option \in 0 .. NumOptions - 1 :
    /\ QuestionMounted
    /\ OptionsEnabled(currentQuestion(state), state.answer)
    /\ dispatch([type |-> "newAnswer", payload |-> option])
    /\ chosen' = Append(chosen, option)
    /\ ticks' = -1
    /\ commit
    /\ UNCHANGED <<file, response>>

NextClick ==
  /\ QuestionMounted
  /\ NextButton(state.answer, numQuestions, state.index) = "nextQuestion"
  /\ dispatch([type |-> "nextQuestion"])
  /\ ticks' = -1
  /\ commit
  /\ UNCHANGED <<file, chosen, response>>

FinishClick ==
  /\ QuestionMounted
  /\ NextButton(state.answer, numQuestions, state.index) = "finish"
  /\ dispatch([type |-> "finish"])
  /\ ticks' = -1
  /\ commit
  /\ UNCHANGED <<file, chosen, response>>

\* the setInterval callback of a live interval
TimerInterval ==
  /\ intervals # {}
  /\ dispatch([type |-> "tick"])
  /\ ticks' = IF ticks >= 0 THEN ticks + 1 ELSE -1
  /\ commit
  /\ UNCHANGED <<file, chosen, response>>

RestartClick ==
  /\ FinishScreenMounted
  /\ dispatch([type |-> "restart"])
  /\ chosen' = <<>>
  /\ ticks' = -1
  /\ commit
  /\ UNCHANGED <<file, response>>

NextUI ==
  \/ LoaderResolved
  \/ LoaderRejected
  \/ LoaderMalformed
  \/ StartScreenClick
  \/ OptionsClick
  \/ NextClick
  \/ FinishClick
  \/ TimerInterval
  \/ RestartClick

SpecUI == Init /\ [][NextUI]_vars

\* a live interval keeps calling back, every second
SpecUILive == SpecUI /\ WF_vars(TimerInterval)

(***************************************************************************)
(* Properties.                                                             *)
(***************************************************************************)
\* the points of exactly those questions whose chosen option is the correct one
RECURSIVE Credit(_, _)
Credit(qs, ch) ==
  IF ch = <<>> THEN 0
  ELSE LET i == Len(ch)
       IN  Credit(qs, SubSeq(ch, 1, i - 1))
             + (IF i <= Len(qs) /\ ch[i] = qs[i].correctOption
                  THEN qs[i].points
                  ELSE 0)

AllPointsNonNegative(qs) == \A i \in 1 .. Len(qs) : qs[i].points >= 0

\* C1: in every reachable finished state highscore >= points, whether the
\* finish button or the tick that ran the clock out ended the quiz.
C1_FinishedHighscoreCoversPoints ==
  state.status = "finished" => state.highscore >= state.points

\* C2: in a play-through driven by the components, the points at the finish
\* transition are the sum of the points of exactly the questions answered
\* with their correctOption, and highscore after finish is the maximum of the
\* previous highscore and that sum.
C2_FinishScoresCorrectAnswers ==
  [][FinishClick =>
       /\ Len(chosen) = Len(state.questions)
       /\ state.points = Credit(state.questions, chosen)
       /\ state'.points = Credit(state.questions, chosen)
       /\ state'.highscore = Max(state.highscore, Credit(state.questions, chosen))]_vars

\* three questions of 10 points, the first and third answered correctly, the
\* second wrongly, finished by button and recorded as highscore
C2_Witness ==
  /\ state.status = "finished"
  /\ ToNumber(state.secondsRemaining) > 0
  /\ Len(state.questions) = 3
  /\ chosen = <<0, 0, 0>>
  /\ state.points = 20
  /\ state.highscore = 20

\* C3: no declared event, dispatched in any reachable state, lowers highscore.
C3_HighscoreNeverDecreases ==
  [][state'.highscore >= state.highscore]_vars

\* a later play-through, behind an earlier one's highscore
C3_Witness ==
  /\ state.status = "active"
  /\ state.highscore >= 30
  /\ state.points < state.highscore
  /\ state.answer # Null

\* C4: with question points >= 0, every event but restart leaves points equal
\* or larger.
C4_PointsNeverDecrease ==
  [][AllPointsNonNegative(state.questions) =>
       (state'.points >= state.points \/ Restart)]_vars

\* points credited for two questions of one play-through
C4_Witness ==
  /\ state.status = "active"
  /\ state.index = 1
  /\ state.answer = Some(0)
  /\ state.points = 30
  /\ state.highscore = 0

\* C5: in every reachable active state secondsRemaining is a number >= 0 and
\* 0 <= index < questions.length, for every loaded list, the empty one too.
C5_ActiveHasTimeAndQuestion ==
  state.status = "active" =>
    /\ state.secondsRemaining # Null
    /\ ToNumber(state.secondsRemaining) >= 0
    /\ 0 <= state.index
    /\ state.index < Len(state.questions)

\* C6 (as claimed): in every reachable finished state secondsRemaining is null
\* or <= 0, also after the explicit finish event.
C6_FinishedHasNoTimeLeft ==
  state.status = "finished" =>
    (state.secondsRemaining = Null \/ ToNumber(state.secondsRemaining) <= 0)

\* C6 (amended): a tick that ends the quiz leaves secondsRemaining <= 0; the
\* explicit finish event leaves secondsRemaining as it was, above 0 if time
\* was left.
C6_FinishedTimeByCause ==
  [][/\ (Tick /\ state.status # "finished" /\ state'.status = "finished") =>
          (state'.secondsRemaining # Null
             /\ ToNumber(state'.secondsRemaining) <= 0)
     /\ Finish => state'.secondsRemaining = state.secondsRemaining]_vars

\* finished by the finish event with time left on the clock
C6_Witness ==
  /\ state.status = "finished"
  /\ state.secondsRemaining # Null
  /\ ToNumber(state.secondsRemaining) > 0
  /\ state.answer # Null

\* C7 (as claimed): tick applied to a finished state changes none of
\* secondsRemaining, points, highscore and status.
C7_TickNoOpWhenFinished ==
  [][(Tick /\ state.status = "finished") =>
       /\ state'.secondsRemaining = state.secondsRemaining
       /\ state'.points = state.points
       /\ state'.highscore = state.highscore
       /\ state'.status = state.status]_vars

\* C7 (amended): tick applied to a finished state leaves points, highscore
\* and status alone and lowers secondsRemaining by one (null counting as 0).
C7_TickWhenFinishedOnlyCounts ==
  [][(Tick /\ state.status = "finished") =>
       /\ state'.secondsRemaining = Some(ToNumber(state.secondsRemaining) - 1)
       /\ state'.points = state.points
       /\ state'.highscore = state.highscore
       /\ state'.status = "finished"]_vars

\* the clock of a finished quiz run below zero
C7_Witness ==
  /\ state.status = "finished"
  /\ state.secondsRemaining = Some(-MaxOverrun)

\* C8 (as claimed): dataFailed yields error, and no declared event leaves error.
C8_ErrorIsTerminal ==
  [][/\ DataFailed => state'.status = "error"
     /\ state.status = "error" => state'.status = "error"]_vars

\* C8 (amended): dataFailed yields error; in error the events dataFailed,
\* newAnswer, nextQuestion and a tick with more than one second left keep
\* status = error, while start, finish, restart, dataReceived and a tick at
\* one second or less lead to active, finished, ready, ready and finished.
C8_ErrorKeptOrLeft ==
  [][/\ DataFailed => state'.status = "error"
     /\ state.status = "error" =>
          /\ (DataFailed \/ NewAnswer \/ NextQuestion) => state'.status = "error"
          /\ (Tick /\ ToNumber(state.secondsRemaining) > 1) => state'.status = "error"
          /\ (Tick /\ ToNumber(state.secondsRemaining) <= 1) => state'.status = "finished"
          /\ Start => state'.status = "active"
          /\ Finish => state'.status = "finished"
          /\ (Restart \/ DataReceived) => state'.status = "ready"]_vars

\* the load failed before anything was loaded
C8_Witness ==
  /\ state.status = "error"
  /\ state.questions = <<>>
  /\ state.secondsRemaining = Null
  /\ state.index = 0

\* C9: restart applied to a finished state yields status = ready, index = 0,
\* answer = null, points = 0, secondsRemaining = null, and the questions and
\* highscore it had.
C9_RestartResets ==
  [][(Restart /\ state.status = "finished") =>
       /\ state'.status = "ready"
       /\ state'.index = 0
       /\ state'.answer = Null
       /\ state'.points = 0
       /\ state'.secondsRemaining = Null
       /\ state'.questions = state.questions
       /\ state'.highscore = state.highscore]_vars

\* ready again, the questions and the highscore kept
C9_Witness ==
  /\ state.status = "ready"
  /\ state.questions # <<>>
  /\ state.highscore > 0
  /\ state.points = 0
  /\ state.index = 0
  /\ state.answer = Null
  /\ state.secondsRemaining = Null

\* C10: start from ready with n >= 1 questions gives secondsRemaining = n * 30
\* and status = active; followed by ticks only, the quiz is active after each of
\* the first n * 30 - 1 ticks and finished exactly on tick n * 30.
C10_CountdownLength ==
  LET n == Len(state.questions)
  IN  (ticks >= 0 /\ n >= 1) =>
        IF ticks < n * 30
          THEN /\ state.status = "active"
               /\ state.secondsRemaining = Some(n * 30 - ticks)
          ELSE /\ ticks = n * 30
               /\ state.status = "finished"

\* the clock of a three-question quiz run out by 90 ticks alone
C10_Witness ==
  /\ ticks = 90
  /\ Len(state.questions) = 3
  /\ state.status = "finished"

\* C11: an event whose type is outside the declared set fails with 'Action is
\* unknown' in every state, and leaves the quiz state as it was.
C11_UnknownActionThrows ==
  [][Unknown => (thrown' = "Action is unknown" /\ state' = state)]_vars

\* an unknown event refused in the middle of a play-through
C11_Witness ==
  /\ thrown = "Action is unknown"
  /\ state.status = "active"
  /\ state.answer # Null
  /\ state.points > 0

\* C12: for every reachable state and every declared event the reducer returns
\* a next state and never fails.
C12_ReducerTotal ==
  [][(DataReceived \/ DataFailed \/ Start \/ NewAnswer \/ NextQuestion
        \/ Finish \/ Restart \/ Tick) => thrown' = "none"]_vars

\* C13 (as claimed): a second newAnswer applied while answer is non-null does
\* not change points.
C13_SecondAnswerHarmless ==
  [][(NewAnswer /\ state.answer # Null) => state'.points = state.points]_vars

\* C13 (amended): a second newAnswer applied while answer is non-null replaces
\* answer and leaves points alone only for a wrong option; with the correct
\* option it credits the current question's points again.
C13_SecondAnswerCreditsAgain ==
  [][\A p \in 0 .. NumOptions - 1 :
       (/\ state.answer # Null
        /\ currentQuestion(state) # Null
        /\ dispatch([type |-> "newAnswer", payload |-> p])) =>
         /\ state'.answer = Some(p)
         /\ state'.points =
              state.points
                + (IF p = currentQuestion(state)[1].correctOption
                     THEN currentQuestion(state)[1].points
                     ELSE 0)]_vars

\* the only question of a quiz credited twice
C13_Witness ==
  /\ state.questions = << Q(1, 10) >>
  /\ state.index = 0
  /\ state.answer = Some(1)
  /\ state.points = 20

\* C14: NextButton dispatches nextQuestion or finish only when answer is
\* non-null, nextQuestion only when index < numQuestions - 1 and finish only
\* when index = numQuestions - 1; so every question before index has received
\* a newAnswer, and finish by button comes after the last question's answer.
C14_NoSkipping ==
  /\ [](state.status \in {"active", "finished"} => Len(chosen) >= state.index)
  /\ [][/\ NextClick =>
             (state.answer # Null /\ state.index < numQuestions - 1)
        /\ FinishClick =>
             (/\ state.answer # Null
              /\ state.index = numQuestions - 1
              /\ Len(chosen) = numQuestions)]_vars

\* the Finish button clicked on the third of three answered questions
C14_Witness ==
  /\ state.status = "finished"
  /\ state.index = 2
  /\ state.answer # Null
  /\ Len(chosen) = 3
  /\ numQuestions = 3
  /\ state.highscore = state.points

\* the edges of the linear flow
FlowEdges ==
  { <<"loading", "ready">>, <<"loading", "error">>, <<"ready", "active">>,
    <<"active", "finished">>, <<"finished", "ready">> }

\* C15 (as claimed): under any sequence of declared events dispatched to the
\* reducer, status changes only along the edges of the linear flow.
C15_LinearFlowOnly ==
  [][state'.status # state.status =>
       <<state.status, state'.status>> \in FlowEdges]_vars

\* C15 (amended): status changes only to the status its event names, from
\* whatever status it is applied in: ready on dataReceived and restart, error
\* on dataFailed, active on start, finished on finish and on a tick reaching
\* zero; newAnswer, nextQuestion and unknown events never change it.
C15_StatusFollowsEvent ==
  [][state'.status # state.status =>
       \/ (DataReceived \/ Restart) /\ state'.status = "ready"
       \/ DataFailed /\ state'.status = "error"
       \/ Start /\ state'.status = "active"
       \/ Finish /\ state'.status = "finished"
       \/ /\ Tick
          /\ ToNumber(state.secondsRemaining) - 1 <= 0
          /\ state'.status = "finished"]_vars

\* a quiz started before its questions were loaded
C15_Witness ==
  /\ state.status = "active"
  /\ state.questions = <<>>
  /\ file # <<>>
  /\ state.secondsRemaining = Some(0)

\* C18: newAnswer(choice) in an active state with a current question sets
\* answer = choice, adds the question's points to points iff choice is its
\* correctOption, and leaves status, index, questions, highscore and
\* secondsRemaining unchanged.
C18_NewAnswerEffect ==
  [][\A choice \in 0 .. NumOptions - 1 :
       (/\ state.status = "active"
        /\ currentQuestion(state) # Null
        /\ dispatch([type |-> "newAnswer", payload |-> choice])) =>
         LET question == state.questions[state.index + 1]
         IN  /\ state'.answer = Some(choice)
             /\ choice = question.correctOption =>
                  state'.points = state.points + question.points
             /\ choice # question.correctOption =>
                  state'.points = state.points
             /\ state'.status = "active"
             /\ state'.index = state.index
             /\ state'.questions = state.questions
             /\ state'.highscore = state.highscore
             /\ state'.secondsRemaining = state.secondsRemaining]_vars

\* the second question answered correctly after a wrong first answer
C18_Witness ==
  /\ state.status = "active"
  /\ state.questions = << Q(1, 10), Q(0, 20) >>
  /\ state.index = 1
  /\ state.answer = Some(0)
  /\ state.points = 20
  /\ state.secondsRemaining = Some(60)

\* C19 (as claimed): answer is null in loading, error and ready, null right
\* after nextQuestion and restart, and null once finish has been applied.
C19_AnswerOnlyWhileAnswering ==
  /\ [](state.status \in {"loading", "error", "ready"} => state.answer = Null)
  /\ [][(NextClick \/ RestartClick \/ FinishClick) => state'.answer = Null]_vars

\* C19 (amended): answer is null in loading, error and ready and right after
\* nextQuestion and restart; finish leaves answer as it was, the non-null
\* answer to the last question.
C19_AnswerKeptByFinish ==
  /\ [](state.status \in {"loading", "error", "ready"} => state.answer = Null)
  /\ [][/\ (NextClick \/ RestartClick) => state'.answer = Null
        /\ FinishClick =>
             (state'.answer = state.answer /\ state'.answer # Null)]_vars

\* a one-question quiz finished by button, its answer still in the state
C19_Witness ==
  /\ state.status = "finished"
  /\ numQuestions = 1
  /\ state.answer = Some(1)
  /\ state.highscore = 10

\* C16: with the Timer mounted exactly while status = active, a tick is
\* dispatched only while the quiz is active; the cleanup cancels the interval
\* when the quiz leaves active (also by the tick that finishes it), so no
\* interval stays live; at most one interval is live at a time; and a start
\* after restart runs on a fresh interval.
C16_TimerTicksOnlyWhileActive ==
  /\ [](/\ Cardinality(intervals) <= 1
        /\ state.status = "active" => (timer # Null /\ intervals = {timer[1]})
        /\ state.status # "active" => (timer = Null /\ intervals = {}))
  /\ [][/\ TimerInterval => state.status = "active"
        /\ StartScreenClick =>
             (intervals' = {intervalSeq + 1} /\ intervalSeq' = intervalSeq + 1)]_vars

\* a second play-through, counted down on the second interval after the
\* first was cancelled
C16_Witness ==
  /\ state.status = "active"
  /\ intervals = {2}
  /\ timer = Some(2)
  /\ state.highscore > 0
  /\ ToNumber(state.secondsRemaining) < numQuestions * SECS_PER_QUESTION

\* C17: the loader dispatches one load event: dataReceived with the parsed
\* list when fetch and parsing succeed, dataFailed (status = error) on any
\* failure, a malformed payload included, which never reaches ready.
C17_LoaderReportsFailures ==
  /\ response = "pending" <=> state.status = "loading"
  /\ response = "ok" =>
       (state.questions = file /\ state.status \notin {"loading", "error"})
  /\ response \in {"failed", "malformed"} => state.status = "error"

\* C20: whenever the quiz is active and the Timer keeps delivering ticks, it
\* eventually is finished, whatever the user does or does not do.
C20_ActiveEventuallyFinished ==
  (state.status = "active") ~> (state.status = "finished")

\* a three-question quiz run out of time after one answer
C20_Witness ==
  /\ state.status = "finished"
  /\ state.secondsRemaining = Some(0)
  /\ numQuestions = 3
  /\ Len(chosen) = 1
  /\ intervals = {}

====
